---- MODULE Spec2Model ----
(***************************************************************************)
(* A model of logfire/experimental/annotations.py: the module-level        *)
(* RANDOMIZE flag, _random_attrs, get_traceparent, raw_annotate_span and   *)
(* record_feedback, with the tracing backend (propagator, attach_context,  *)
(* feedback_logfire.info) as the collaborator the module calls.            *)
(***************************************************************************)
EXTENDS Integers, Sequences, FiniteSets, TLC

VARIABLES env, loaded, RANDOMIZE, th, ncalls

vars == <<env, loaded, RANDOMIZE, th, ncalls>>

Threads == {"t1", "t2"}

(***************************************************************************)
(* Python values: a type tag and the literal text of the value.            *)
(***************************************************************************)
NoneVal == [t |-> "NoneType", v |-> "None"]

PyStr(s) == [t |-> "str", v |-> s]

PyInt(n) == [t |-> "int", v |-> ToString(n)]

PyIntLit(s) == [t |-> "int", v |-> s]

PyFloat(s) == [t |-> "float", v |-> s]

PyBool(s) == [t |-> "bool", v |-> s]

PyDict(d) == [t |-> "dict", d |-> d]

EmptyDict == [k \in {} |-> NoneVal]

\* bool(x) of a str, a dict or None
Truthy(x) ==
    CASE x.t = "NoneType" -> FALSE
      [] x.t = "str" -> x.v # ""
      [] x.t = "dict" -> DOMAIN x.d # {}
      [] OTHER -> TRUE

\* repr(value): a str is quoted, a number or a bool prints as its literal
repr(value) == IF value.t = "str" THEN "'" \o value.v \o "'" ELSE value.v

\* {**a, **b} and a.update(b): on a shared key the right-hand map wins
Merge(a, b) ==
    [k \in DOMAIN a \cup DOMAIN b |-> IF k \in DOMAIN b THEN b[k] ELSE a[k]]

(***************************************************************************)
(* Module constants                                                        *)
(***************************************************************************)
TRACEPARENT_NAME == "traceparent"

ATTRIBUTES_MESSAGE_KEY == "logfire.msg"

ATTRIBUTES_SPAN_TYPE_KEY == "logfire.span_type"

FEEDBACK_SCOPE == "feedback"

(***************************************************************************)
(* The RANDOMIZE toggle: os.environ.get("LOGFIRE_RANDOMIZE", "true")       *)
(*   .lower() not in ("0", "false", "no").  Strings are character          *)
(* sequences so that lower() acts character by character.                  *)
(***************************************************************************)
Unset == [set |-> FALSE, val |-> <<>>]

SetTo(s) == [set |-> TRUE, val |-> s]

EnvValues ==
    { Unset,
      SetTo(<<"0">>),
      SetTo(<<"F", "a", "l", "s", "e">>),
      SetTo(<<"N", "O">>),
      SetTo(<<"o", "f", "f">>) }

LowerChar(c) ==
    CASE c = "A" -> "a" [] c = "E" -> "e" [] c = "F" -> "f" [] c = "L" -> "l"
      [] c = "N" -> "n" [] c = "O" -> "o" [] c = "S" -> "s" [] c = "T" -> "t"
      [] c = "R" -> "r" [] c = "U" -> "u" [] OTHER -> c

Lower(s) == [i \in 1..Len(s) |-> LowerChar(s[i])]

EnvironGet(e, default) == IF e.set THEN e.val ELSE default

FalsyStrings == { <<"0">>, <<"f", "a", "l", "s", "e">>, <<"n", "o">> }

RandomizeNoLower(e) ==
    EnvironGet(e, <<"t", "r", "u", "e">>) \notin FalsyStrings

RandomizeFromEnv(e) ==
    Lower(EnvironGet(e, <<"t", "r", "u", "e">>)) \notin FalsyStrings

(***************************************************************************)
(* _random_attrs                                                           *)
(***************************************************************************)
emojis ==
    << "sparkles", "fire", "rainbow", "satellite", "unicorn", "dizzy",
       "robot", "clover", "coffee" >>

PowerMin == 1

PowerMax == 9000

\* random.getrandbits(32): the largest value, as its literal
MaxSeedLiteral == "4294967295"

\* random.random() < 0.05, in hundredths
EggPercent == 5

\* One draw of the generator: the values the calls of uuid, random and time
\* return during one execution of _random_attrs (r in hundredths).
RandomDraws ==
    { [uuid |-> "uuid-a", emoji |-> 1, power |-> PowerMin,
       ts |-> "1700000000.0", seed |-> "0", r |-> EggPercent - 1],
      [uuid |-> "uuid-b", emoji |-> Len(emojis), power |-> PowerMax,
       ts |-> "1700000000.5", seed |-> MaxSeedLiteral, r |-> EggPercent],
      [uuid |-> "uuid-c", emoji |-> 2, power |-> PowerMax,
       ts |-> "1700000001.0", seed |-> "7", r |-> 99] }

DecorativeKeys ==
    { "x-random-uuid", "x-random-emoji", "x-random-power", "x-random-ts",
      "x-random-seed", "x-random-easter-egg" }

EASTER_EGG_KEY == "x-random-easter-egg"

BaseAttrs(w) ==
    ("x-random-uuid" :> PyStr(w.uuid))
      @@ ("x-random-emoji" :> PyStr(emojis[w.emoji]))
      @@ ("x-random-power" :> PyInt(w.power))
      @@ ("x-random-ts" :> PyFloat(w.ts))
      @@ ("x-random-seed" :> PyIntLit(w.seed))

AttrsOfDraw(w) ==
    IF w.r < EggPercent
    THEN BaseAttrs(w) @@ (EASTER_EGG_KEY :> PyStr("may_the_force_be_with_you"))
    ELSE BaseAttrs(w)

\* the maps one call of _random_attrs() can return under the flag
random_attrs(flag) ==
    IF ~flag THEN { EmptyDict } ELSE { AttrsOfDraw(w) : w \in RandomDraws }

(***************************************************************************)
(* The W3C trace-context propagator: inject writes                         *)
(* version-traceid-spanid-flags, extract parses it back.                   *)
(***************************************************************************)
HexDigits ==
    { "0", "1", "2", "3", "4", "5", "6", "7", "8", "9",
      "a", "b", "c", "d", "e", "f" }

Rep(c, n) == [i \in 1..n |-> c]

IsHex(s) == \A i \in 1..Len(s) : s[i] \in HexDigits

ZeroTraceId == Rep("0", 32)

ZeroSpanId == Rep("0", 16)

\* opentelemetry's INVALID_SPAN_CONTEXT
INVALID_SPAN_CONTEXT ==
    [trace_id |-> ZeroTraceId, span_id |-> ZeroSpanId, flags |-> <<"0", "0">>,
     is_remote |-> FALSE]

\* a context holding no span
EmptyContext == [has_span |-> FALSE, sc |-> INVALID_SPAN_CONTEXT]

set_span_in_context(real_span) == [has_span |-> TRUE, sc |-> real_span.sc]

\* TRACEPARENT_PROPAGATOR.inject(carrier, context): the carrier afterwards
Inject(carrier, context) ==
    LET sc == IF context.has_span THEN context.sc ELSE INVALID_SPAN_CONTEXT
    IN  IF sc = INVALID_SPAN_CONTEXT
        THEN carrier
        ELSE Merge(carrier,
                   TRACEPARENT_NAME :>
                       (<<"0", "0", "-">> \o sc.trace_id \o <<"-">>
                          \o sc.span_id \o <<"-">> \o sc.flags))

\* TRACEPARENT_PROPAGATOR.extract(carrier, context): the context afterwards
Extract(carrier, context) ==
    IF TRACEPARENT_NAME \notin DOMAIN carrier
    THEN context
    ELSE
      LET h == carrier[TRACEPARENT_NAME]
          version == SubSeq(h, 1, 2)
          trace_id == SubSeq(h, 4, 35)
          span_id == SubSeq(h, 37, 52)
          flags == SubSeq(h, 54, 55)
          matches ==
              /\ Len(h) >= 55
              /\ h[3] = "-" /\ h[36] = "-" /\ h[53] = "-"
              /\ IsHex(version) /\ IsHex(trace_id)
              /\ IsHex(span_id) /\ IsHex(flags)
              /\ (Len(h) > 55 => h[56] = "-")
      IN  IF   \/ ~matches
               \/ trace_id = ZeroTraceId
               \/ span_id = ZeroSpanId
               \/ (version = <<"0", "0">> /\ Len(h) > 55)
               \/ version = <<"f", "f">>
          THEN context
          ELSE [has_span |-> TRUE,
                sc |-> [trace_id |-> trace_id, span_id |-> span_id,
                        flags |-> flags, is_remote |-> TRUE]]

(***************************************************************************)
(* get_traceparent                                                         *)
(***************************************************************************)
TraceIdA ==
    << "4", "b", "f", "9", "2", "f", "3", "5", "7", "7", "b", "3", "4", "d",
       "a", "6", "a", "3", "c", "e", "9", "2", "9", "d", "0", "e", "0", "e",
       "4", "7", "3", "6" >>

SpanIdA ==
    << "0", "0", "f", "0", "6", "7", "a", "a", "0", "b", "a", "9", "0", "2",
       "b", "7" >>

TraceIdB == Rep("a", 31) \o <<"1">>

SpanIdB == Rep("0", 15) \o <<"2">>

RawSpan(tid, sid, fl) ==
    [cls |-> "Span",
     sc |-> [trace_id |-> tid, span_id |-> sid, flags |-> fl,
             is_remote |-> FALSE]]

\* a logfire.LogfireSpan whose _span is `inner` (a Span, or None)
Wrapper(inner) == [cls |-> "LogfireSpan", span |-> inner]

NoSpan == [cls |-> "NoneType"]

SpanA == RawSpan(TraceIdA, SpanIdA, <<"0", "1">>)

SpanB == RawSpan(TraceIdB, SpanIdB, <<"0", "0">>)

NoopSpan ==
    [cls |-> "Span", sc |-> INVALID_SPAN_CONTEXT]

LiveSpans == { SpanA, NoopSpan, Wrapper(SpanB), Wrapper(NoSpan) }

\* lines 53-58: the span itself, or the wrapper's _span (asserted non-null)
real_span_of(span) == IF span.cls = "Span" THEN span ELSE span.span

get_traceparent_fails(span) == real_span_of(span).cls = "NoneType"

CarrierGet(carrier, key, default) ==
    IF key \in DOMAIN carrier THEN carrier[key] ELSE default

get_traceparent_wrong_key(span) ==
    CarrierGet(Inject(EmptyDict, set_span_in_context(real_span_of(span))),
               "tracestate", <<>>)

\* lines 59-62 (for a span on which the assertion holds)
get_traceparent(span) ==
    CarrierGet(Inject(EmptyDict, set_span_in_context(real_span_of(span))),
               TRACEPARENT_NAME, <<>>)

(***************************************************************************)
(* A thread's frame: the call it is in, its arguments and locals, the      *)
(* context attached to the thread, and what the call did to the backend.   *)
(***************************************************************************)
Fresh ==
    [pc |-> "idle", op |-> "none", traceparent |-> <<>>, name |-> "",
     value |-> NoneVal, comment |-> NoneVal, extra |-> NoneVal,
     span_name |-> "", message |-> "", caller |-> EmptyDict,
     attributes |-> EmptyDict, rnd110 |-> EmptyDict, rnd68 |-> EmptyDict,
     decorated |-> EmptyDict, ctx |-> EmptyContext, attempts |-> 0,
     out |-> <<>>, outcome |-> "none", late |-> FALSE, span |-> NoSpan,
     result |-> <<>>]

FEEDBACK_NAME_KEY == "logfire.feedback.name"

FEEDBACK_COMMENT_KEY == "logfire.feedback.comment"

\* line 103: the assertion fails
feedback_assert_skipped(name, extra) == FALSE

feedback_assert_fails(name, extra) == Truthy(extra) /\ name \in DOMAIN extra.d

feedback_attributes_comment_first(name, value, comment, extra) ==
    LET a0 == Merge(FEEDBACK_NAME_KEY :> PyStr(name), name :> value)
        a1 == IF comment.t # "NoneType"
              THEN Merge(a0, FEEDBACK_COMMENT_KEY :> comment) ELSE a0
    IN  IF Truthy(extra) THEN Merge(a1, extra.d) ELSE a1

\* lines 100-107: the attributes record_feedback builds from its arguments
feedback_attributes(name, value, comment, extra) ==
    LET a0 == Merge(FEEDBACK_NAME_KEY :> PyStr(name), name :> value)
        a1 == IF Truthy(extra) THEN Merge(a0, extra.d) ELSE a0
    IN  IF Truthy(comment) THEN Merge(a1, FEEDBACK_COMMENT_KEY :> comment) ELSE a1

\* line 114
feedback_span_name(name) == "feedback: " \o name

\* line 115
feedback_message(name, value) == "feedback: " \o name \o " = " \o repr(value)

decorate_drop_caller(attributes, D) == IF D = EmptyDict THEN attributes ELSE D

\* line 68: {**attributes, **_random_attrs()}
decorate(attributes, D) == Merge(attributes, D)

ReservedKwargs == { ATTRIBUTES_MESSAGE_KEY, ATTRIBUTES_SPAN_TYPE_KEY }

\* lines 70-77: a keyword given twice is a TypeError raised before the call
info_kwargs_collide(decorated) == DOMAIN decorated \cap ReservedKwargs # {}

\* lines 70-77: the span feedback_logfire.info is asked to emit
info_span(span_name, decorated, message, ctx) ==
    [scope |-> FEEDBACK_SCOPE,
     name |-> span_name,
     kwargs |-> Merge(decorated,
                      (ATTRIBUTES_MESSAGE_KEY :> PyStr(message))
                        @@ (ATTRIBUTES_SPAN_TYPE_KEY :> PyStr("annotation"))),
     parent |-> ctx]

\* attach_context({TRACEPARENT_NAME: traceparent}, propagator=...)
attach_context(traceparent, current) ==
    Extract(TRACEPARENT_NAME :> traceparent, current)

(***************************************************************************)
(* Module load and the environment                                         *)
(***************************************************************************)
\* lines 17-24: the module body runs once
Load ==
    /\ ~loaded
    /\ loaded' = TRUE
    /\ RANDOMIZE' = RandomizeFromEnv(env)
    /\ UNCHANGED <<env, th, ncalls>>

\* the process environment is changed (os.environ, by anyone)
SetEnv(e) ==
    /\ e # env
    /\ env' = e
    /\ UNCHANGED <<loaded, RANDOMIZE, th, ncalls>>

(***************************************************************************)
(* Calls and their steps                                                   *)
(***************************************************************************)
call_get_traceparent(t, span) ==
    /\ loaded
    /\ th[t].pc = "idle"
    /\ th' = [th EXCEPT ![t] =
                 IF get_traceparent_fails(span)
                 THEN [Fresh EXCEPT !.pc = "done", !.op = "get_traceparent",
                                    !.span = span,
                                    !.outcome = "AssertionError"]
                 ELSE [Fresh EXCEPT !.pc = "done", !.op = "get_traceparent",
                                    !.span = span,
                                    !.result = get_traceparent(span),
                                    !.outcome = "returned"]]
    /\ UNCHANGED <<env, loaded, RANDOMIZE>>

call_raw_annotate_span(t, traceparent, span_name, message, attributes) ==
    /\ loaded
    /\ th[t].pc = "idle"
    /\ th' = [th EXCEPT ![t] =
                 [Fresh EXCEPT !.pc = "raw68", !.op = "raw_annotate_span",
                               !.traceparent = traceparent,
                               !.span_name = span_name, !.message = message,
                               !.caller = attributes,
                               !.attributes = attributes,
                               !.late = (RandomizeFromEnv(env) # RANDOMIZE)]]
    /\ UNCHANGED <<env, loaded, RANDOMIZE>>

call_record_feedback(t, traceparent, name, value, comment, extra) ==
    /\ loaded
    /\ th[t].pc = "idle"
    /\ th' = [th EXCEPT ![t] =
                 [Fresh EXCEPT !.pc = "rf100", !.op = "record_feedback",
                               !.traceparent = traceparent, !.name = name,
                               !.value = value, !.comment = comment,
                               !.extra = extra,
                               !.late = (RandomizeFromEnv(env) # RANDOMIZE)]]
    /\ UNCHANGED <<env, loaded, RANDOMIZE>>

\* as rf_build, with `attributes` one dict shared by every call in flight
rf_build_shared(t) ==
    /\ th[t].pc = "rf100"
    /\ LET a == feedback_attributes(th[t].name, th[t].value, th[t].comment,
                                    th[t].extra)
       IN  th' = [u \in Threads |->
                    IF u = t
                    THEN [th[u] EXCEPT !.pc = "rf110", !.attributes = a]
                    ELSE IF th[u].pc = "rf110"
                    THEN [th[u] EXCEPT !.attributes = a]
                    ELSE th[u]]
    /\ UNCHANGED <<env, loaded, RANDOMIZE, ncalls>>

\* lines 100-107
rf_build(t) ==
    /\ th[t].pc = "rf100"
    /\ th' = [th EXCEPT ![t] =
                 IF feedback_assert_fails(th[t].name, th[t].extra)
                 THEN [@ EXCEPT !.pc = "done", !.outcome = "AssertionError"]
                 ELSE [@ EXCEPT !.pc = "rf110",
                                !.attributes =
                                    feedback_attributes(th[t].name,
                                                        th[t].value,
                                                        th[t].comment,
                                                        th[t].extra)]]
    /\ UNCHANGED <<env, loaded, RANDOMIZE, ncalls>>

\* lines 110-117: decorate, then call raw_annotate_span
rf_decorate(t) ==
    /\ th[t].pc = "rf110"
    /\ \E D \in random_attrs(RANDOMIZE) :
         th' = [th EXCEPT ![t] =
                   [@ EXCEPT !.pc = "raw68",
                             !.rnd110 = D,
                             !.attributes = Merge(th[t].attributes, D),
                             !.span_name = feedback_span_name(th[t].name),
                             !.message =
                                 feedback_message(th[t].name, th[t].value)]]
    /\ UNCHANGED <<env, loaded, RANDOMIZE, ncalls>>

\* line 68
raw_decorate(t) ==
    /\ th[t].pc = "raw68"
    /\ \E D \in random_attrs(RANDOMIZE) :
         th' = [th EXCEPT ![t] =
                   [@ EXCEPT !.pc = "raw69",
                             !.rnd68 = D,
                             !.decorated = decorate(th[t].attributes, D)]]
    /\ UNCHANGED <<env, loaded, RANDOMIZE, ncalls>>

\* line 69: entering the with block attaches the restored context
raw_attach(t) ==
    /\ th[t].pc = "raw69"
    /\ th' = [th EXCEPT ![t] =
                 [@ EXCEPT !.pc = "raw70",
                           !.ctx = attach_context(th[t].traceparent,
                                                  th[t].ctx)]]
    /\ UNCHANGED <<env, loaded, RANDOMIZE, ncalls>>

raw_emit_twice(t) ==
    /\ th[t].pc = "raw70"
    /\ LET s == info_span(th[t].span_name, th[t].decorated, th[t].message,
                          th[t].ctx)
       IN  th' = [th EXCEPT ![t] =
                     [@ EXCEPT !.pc = "raw77", !.attempts = 2,
                               !.out = <<s, s>>]]
    /\ UNCHANGED <<env, loaded, RANDOMIZE, ncalls>>

\* lines 70-77: the call of feedback_logfire.info; an exception leaves the
\* with block (the context is detached) and propagates to the caller
raw_emit(t) ==
    /\ th[t].pc = "raw70"
    /\ \E backend_ok \in BOOLEAN :
         th' = [th EXCEPT ![t] =
                   IF info_kwargs_collide(th[t].decorated)
                   THEN [@ EXCEPT !.pc = "done", !.ctx = EmptyContext,
                                  !.outcome = "TypeError"]
                   ELSE IF backend_ok
                   THEN [@ EXCEPT !.pc = "raw77",
                                  !.attempts = @ + 1,
                                  !.out = Append(@, info_span(th[t].span_name,
                                                              th[t].decorated,
                                                              th[t].message,
                                                              th[t].ctx))]
                   ELSE [@ EXCEPT !.pc = "done", !.ctx = EmptyContext,
                                  !.attempts = @ + 1,
                                  !.outcome = "BackendError"]]
    /\ UNCHANGED <<env, loaded, RANDOMIZE, ncalls>>

\* line 77: leaving the with block detaches the context; the call returns
raw_exit(t) ==
    /\ th[t].pc = "raw77"
    /\ th' = [th EXCEPT ![t] =
                 [@ EXCEPT !.pc = "done", !.ctx = EmptyContext,
                           !.outcome = "returned"]]
    /\ UNCHANGED <<env, loaded, RANDOMIZE, ncalls>>

\* the caller goes on: the finished call's frame is gone
caller_continues(t) ==
    /\ th[t].pc = "done"
    /\ th' = [th EXCEPT ![t] = Fresh]
    /\ UNCHANGED <<env, loaded, RANDOMIZE, ncalls>>

(***************************************************************************)
(* Inputs                                                                  *)
(***************************************************************************)
Garbage == << "g", "a", "r", "b", "a", "g", "e" >>

\* what callers pass as traceparent: what get_traceparent returned for a
\* live span, or a string that is no header
Traceparents ==
    { get_traceparent(s) : s \in { SpanA, NoopSpan } } \cup { Garbage }

Names == { "score", "x-random-power", FEEDBACK_COMMENT_KEY }

Values == { PyFloat("0.9"), PyStr("good"), PyBool("True") }

Comments == { NoneVal, PyStr(""), PyStr("looks good") }

Extras ==
    { NoneVal,
      PyDict(EmptyDict),
      PyDict("score" :> PyInt(1)),
      PyDict("user" :> PyStr("u1")),
      PyDict(FEEDBACK_NAME_KEY :> PyStr("other")),
      PyDict(FEEDBACK_COMMENT_KEY :> PyStr("from extra")) }

RawAttributes ==
    { EmptyDict,
      "user" :> PyStr("u1"),
      ("x-random-power" :> PyInt(0)) @@ ("user" :> PyStr("u1")),
      EASTER_EGG_KEY :> PyStr("mine"),
      ATTRIBUTES_MESSAGE_KEY :> PyStr("hijack") }

Main == "t1"

Init ==
    /\ env \in EnvValues
    /\ loaded = FALSE
    /\ RANDOMIZE \in BOOLEAN
    /\ th = [t \in Threads |-> Fresh]
    /\ ncalls = [t \in Threads |-> 0]

\* one caller making call after call
main_get_traceparent ==
    /\ \E s \in LiveSpans : call_get_traceparent(Main, s)
    /\ UNCHANGED ncalls

main_raw_annotate_span ==
    /\ \E tp \in Traceparents, a \in RawAttributes :
         call_raw_annotate_span(Main, tp, "note", "hello", a)
    /\ UNCHANGED ncalls

main_record_feedback ==
    /\ \E tp \in Traceparents, n \in Names, v \in Values, c \in Comments,
          x \in Extras :
         call_record_feedback(Main, tp, n, v, c, x)
    /\ UNCHANGED ncalls

Next ==
    \/ Load
    \/ \E e \in EnvValues : SetEnv(e)
    \/ main_get_traceparent
    \/ main_raw_annotate_span
    \/ main_record_feedback
    \/ rf_build(Main)
    \/ rf_decorate(Main)
    \/ raw_decorate(Main)
    \/ raw_attach(Main)
    \/ raw_emit(Main)
    \/ raw_exit(Main)
    \/ caller_continues(Main)

Spec == Init /\ [][Next]_vars

(***************************************************************************)
(* Two threads calling record_feedback concurrently, with different names  *)
(* and the same traceparent, each thread at most MaxCalls times.           *)
(***************************************************************************)
MaxCalls == 1

ConcInputs(t) ==
    IF t = "t1"
    THEN [tp : { get_traceparent(SpanA), get_traceparent(Wrapper(SpanB)) },
          name : { "score", "x-random-power" },
          value : { PyFloat("0.9") },
          comment : { NoneVal, PyStr("looks good") },
          extra : { NoneVal, PyDict("user" :> PyStr("u1")) }]
    ELSE [tp : { get_traceparent(SpanA), get_traceparent(Wrapper(SpanB)) },
          name : { "ok", "score" },
          value : { PyBool("True") },
          comment : { PyStr("needs work") },
          extra : { PyDict("user" :> PyStr("u2")) }]

conc_call(t) ==
    \E a \in ConcInputs(t) :
      /\ ncalls[t] < MaxCalls
      /\ ncalls' = [ncalls EXCEPT ![t] = @ + 1]
      /\ \A u \in Threads \ {t} :
           th[u].op # "none" =>
               a.tp = th[u].traceparent /\ a.name # th[u].name
      /\ call_record_feedback(t, a.tp, a.name, a.value, a.comment, a.extra)

InitConc ==
    /\ env \in { Unset, SetTo(<<"0">>) }
    /\ loaded = TRUE
    /\ RANDOMIZE = RandomizeFromEnv(env)
    /\ th = [t \in Threads |-> Fresh]
    /\ ncalls = [t \in Threads |-> 0]

NextConc ==
    \E t \in Threads :
      \/ conc_call(t)
      \/ rf_build(t)
      \/ rf_decorate(t)
      \/ raw_decorate(t)
      \/ raw_attach(t)
      \/ raw_emit(t)
      \/ raw_exit(t)
      \/ caller_continues(t)

SpecConc == InitConc /\ [][NextConc]_vars

(***************************************************************************)
(* What a call's emitted span shows                                        *)
(***************************************************************************)
Emitted(t) == Len(th[t].out) > 0

TheSpan(t) == th[t].out[1]

SpanAttributes(s) ==
    [k \in DOMAIN s.kwargs \ ReservedKwargs |-> s.kwargs[k]]

SpanMessage(s) == s.kwargs[ATTRIBUTES_MESSAGE_KEY].v

SpanKind(s) == s.kwargs[ATTRIBUTES_SPAN_TYPE_KEY].v

Has(a, k, v) == k \in DOMAIN a /\ a[k] = v

IsCall(t) == th[t].op \in { "raw_annotate_span", "record_feedback" }

ExtraKeys(t) == IF th[t].extra.t = "dict" THEN DOMAIN th[t].extra.d ELSE {}

\* the keys the caller of the call in thread t supplied
CallerKeys(t) ==
    IF th[t].op = "record_feedback"
    THEN { FEEDBACK_NAME_KEY, th[t].name } \cup ExtraKeys(t)
           \cup (IF Truthy(th[t].comment) THEN { FEEDBACK_COMMENT_KEY } ELSE {})
    ELSE DOMAIN th[t].caller

(***************************************************************************)
(* C1: decoration never overrides caller data.  In every emitted span,     *)
(* every key the caller supplied (raw_annotate_span: each key of           *)
(* attributes; record_feedback: logfire.feedback.name, name, each key of   *)
(* extra, and logfire.feedback.comment when comment is non-empty) is       *)
(* present with the caller's value, decorative keys included.              *)
(***************************************************************************)
C1_CallerKeysKept ==
    \A t \in Threads :
      (IsCall(t) /\ Emitted(t)) =>
        LET a == SpanAttributes(TheSpan(t))
        IN  IF th[t].op = "raw_annotate_span"
            THEN \A k \in DOMAIN th[t].caller : Has(a, k, th[t].caller[k])
            ELSE /\ Has(a, FEEDBACK_NAME_KEY, PyStr(th[t].name))
                 /\ Has(a, th[t].name, th[t].value)
                 /\ \A k \in ExtraKeys(t) : Has(a, k, th[t].extra.d[k])
                 /\ Truthy(th[t].comment) =>
                        Has(a, FEEDBACK_COMMENT_KEY, th[t].comment)

(***************************************************************************)
(* C2: the span record_feedback emits is named "feedback: " + name, its    *)
(* message is "feedback: " + name + " = " + repr(value), and its           *)
(* attributes map logfire.feedback.name to name and name to value.         *)
(***************************************************************************)
C2_FeedbackSpanShape ==
    \A t \in Threads :
      (th[t].op = "record_feedback" /\ Emitted(t)) =>
        LET s == TheSpan(t)
            a == SpanAttributes(s)
            lit == IF th[t].value.t = "str"
                   THEN "'" \o th[t].value.v \o "'" ELSE th[t].value.v
        IN  /\ s.name = "feedback: " \o th[t].name
            /\ SpanMessage(s) = "feedback: " \o th[t].name \o " = " \o lit
            /\ Has(a, FEEDBACK_NAME_KEY, PyStr(th[t].name))
            /\ Has(a, th[t].name, th[t].value)

(***************************************************************************)
(* C3: record_feedback called with an extra that contains the key name     *)
(* fails with an assertion error before anything is emitted, and emits     *)
(* nothing afterwards.                                                     *)
(***************************************************************************)
C3_CollisionFailsBeforeEmission ==
    \A t \in Threads :
      (th[t].op = "record_feedback" /\ th[t].name \in ExtraKeys(t)) =>
        /\ th[t].pc \in { "rf100", "done" }
        /\ th[t].out = <<>>
        /\ th[t].attempts = 0
        /\ th[t].pc = "done" => th[t].outcome = "AssertionError"

C3_Witness ==
    \E t \in Threads :
      /\ th[t].op = "record_feedback"
      /\ th[t].name \in ExtraKeys(t)
      /\ th[t].pc = "done"
      /\ th[t].outcome = "AssertionError"

(***************************************************************************)
(* C4: raw_annotate_span called with attributes A emits exactly A union D  *)
(* when randomization is enabled and the generated D has keys disjoint     *)
(* from A, and exactly A when randomization is disabled.                   *)
(***************************************************************************)
C4_AnnotateAttributes ==
    \A t \in Threads :
      (IsCall(t) /\ Emitted(t)) =>
        LET a == SpanAttributes(TheSpan(t))
            A == th[t].attributes
            D == th[t].rnd68
        IN  /\ (RANDOMIZE /\ DOMAIN A \cap DOMAIN D = {}) =>
                 /\ DOMAIN a = DOMAIN A \cup DOMAIN D
                 /\ \A k \in DOMAIN A : a[k] = A[k]
                 /\ \A k \in DOMAIN D : a[k] = D[k]
                 /\ DOMAIN D # {}
            /\ ~RANDOMIZE => a = A

C4_Witness ==
    \E t \in Threads :
      /\ th[t].op = "raw_annotate_span"
      /\ Emitted(t)
      /\ RANDOMIZE
      /\ DOMAIN th[t].attributes = { "user" }
      /\ EASTER_EGG_KEY \in DOMAIN th[t].rnd68
      /\ DOMAIN SpanAttributes(TheSpan(t)) =
             { "user" } \cup DOMAIN th[t].rnd68

(***************************************************************************)
(* C5: every call of raw_annotate_span or record_feedback either returns   *)
(* after exactly one span of kind annotation, with the full merged         *)
(* attributes, was emitted through the feedback scope, or fails with no    *)
(* span emitted; a failed emission propagates and is attempted once only.  *)
(***************************************************************************)
C5_OneSpanOrNone ==
    \A t \in Threads :
      IsCall(t) =>
        /\ Len(th[t].out) <= 1
        /\ th[t].attempts <= 1
        /\ Emitted(t) =>
             /\ SpanKind(TheSpan(t)) = "annotation"
             /\ TheSpan(t).scope = "feedback"
             /\ DOMAIN SpanAttributes(TheSpan(t)) =
                    DOMAIN th[t].attributes \cup DOMAIN th[t].rnd68
             /\ SpanAttributes(TheSpan(t)) = th[t].decorated
        /\ th[t].pc = "done" =>
             \/ /\ th[t].outcome = "returned"
                /\ Len(th[t].out) = 1
                /\ th[t].attempts = 1
             \/ /\ th[t].outcome \in
                       { "AssertionError", "TypeError", "BackendError" }
                /\ th[t].out = <<>>
                /\ th[t].attempts = 1 <=> th[t].outcome = "BackendError"

C5_Witness ==
    \E t \in Threads :
      /\ th[t].op = "record_feedback"
      /\ th[t].pc = "done"
      /\ th[t].outcome = "BackendError"
      /\ th[t].attempts = 1
      /\ th[t].out = <<>>

(***************************************************************************)
(* C6: in any interleaving of two concurrent record_feedback calls with    *)
(* different names and one traceparent, each returned call has emitted     *)
(* exactly one span, whose parent is the context restored from that        *)
(* traceparent and whose name, message and attributes come from its own    *)
(* call's arguments (or from decoration) only: two spans when both return. *)
(***************************************************************************)
\* the values the arguments of thread t's own call give to key k
OwnValues(t, k) ==
    (IF k = FEEDBACK_NAME_KEY THEN { PyStr(th[t].name) } ELSE {})
      \cup (IF k = th[t].name THEN { th[t].value } ELSE {})
      \cup (IF k \in ExtraKeys(t) THEN { th[t].extra.d[k] } ELSE {})
      \cup (IF k = FEEDBACK_COMMENT_KEY /\ Truthy(th[t].comment)
            THEN { th[t].comment } ELSE {})

DrawnValues(k) ==
    { AttrsOfDraw(w)[k] : w \in { x \in RandomDraws : k \in DOMAIN AttrsOfDraw(x) } }

C6_NoCrossContamination ==
    /\ \A t \in Threads :
         /\ Len(th[t].out) <= 1
         /\ (th[t].pc = "done" /\ th[t].outcome = "returned") =>
                Len(th[t].out) = 1
         /\ Emitted(t) =>
              LET s == TheSpan(t)
                  a == SpanAttributes(s)
              IN  /\ s.name = "feedback: " \o th[t].name
                  /\ SpanMessage(s) =
                         "feedback: " \o th[t].name \o " = " \o th[t].value.v
                  /\ s.parent.has_span
                  /\ s.parent.sc.trace_id = SubSeq(th[t].traceparent, 4, 35)
                  /\ CallerKeys(t) \subseteq DOMAIN a
                  /\ \A k \in DOMAIN a :
                       \/ a[k] \in OwnValues(t, k)
                       \/ k \in DecorativeKeys /\ a[k] \in DrawnValues(k)
    /\ \A t, u \in Threads :
         (t # u /\ th[t].op # "none" /\ th[u].op # "none") =>
             /\ th[t].traceparent = th[u].traceparent
             /\ th[t].name # th[u].name
             /\ (Emitted(t) /\ Emitted(u)) =>
                    /\ TheSpan(t).parent = TheSpan(u).parent
                    /\ TheSpan(t).name # TheSpan(u).name

C6_Witness ==
    /\ \A t \in Threads :
         /\ th[t].pc = "done"
         /\ th[t].outcome = "returned"
         /\ Len(th[t].out) = 1
    /\ TheSpan("t1").parent.sc.trace_id = TraceIdB
    /\ TheSpan("t2").parent.sc.trace_id = TraceIdB
    /\ Has(SpanAttributes(TheSpan("t1")), "user", PyStr("u1"))
    /\ Has(SpanAttributes(TheSpan("t2")), "user", PyStr("u2"))

(***************************************************************************)
(* C7 as claimed: the span of record_feedback carries                      *)
(* logfire.feedback.comment = comment when comment is non-empty; when      *)
(* comment is None or empty the key is absent unless the caller put it in  *)
(* extra.                                                                  *)
(***************************************************************************)
C7_CommentAsClaimed ==
    \A t \in Threads :
      (th[t].op = "record_feedback" /\ Emitted(t)) =>
        LET a == SpanAttributes(TheSpan(t))
        IN  IF Truthy(th[t].comment)
            THEN Has(a, FEEDBACK_COMMENT_KEY, th[t].comment)
            ELSE FEEDBACK_COMMENT_KEY \in DOMAIN a =>
                     FEEDBACK_COMMENT_KEY \in ExtraKeys(t)

(***************************************************************************)
(* C7 amended: the span of record_feedback carries                         *)
(* logfire.feedback.comment = comment when comment is non-empty; when      *)
(* comment is None or empty the key is present exactly when the caller put *)
(* it in extra or passed it as name, with the value given there (extra's   *)
(* over name's).                                                           *)
(***************************************************************************)
C7_CommentAttribute ==
    \A t \in Threads :
      (th[t].op = "record_feedback" /\ Emitted(t)) =>
        LET a == SpanAttributes(TheSpan(t))
        IN  IF Truthy(th[t].comment)
            THEN Has(a, FEEDBACK_COMMENT_KEY, th[t].comment)
            ELSE IF FEEDBACK_COMMENT_KEY \in ExtraKeys(t)
            THEN Has(a, FEEDBACK_COMMENT_KEY,
                     th[t].extra.d[FEEDBACK_COMMENT_KEY])
            ELSE IF th[t].name = FEEDBACK_COMMENT_KEY
            THEN Has(a, FEEDBACK_COMMENT_KEY, th[t].value)
            ELSE FEEDBACK_COMMENT_KEY \notin DOMAIN a

C7_Witness ==
    \E t \in Threads :
      /\ th[t].op = "record_feedback"
      /\ Emitted(t)
      /\ th[t].comment = PyStr("looks good")
      /\ FEEDBACK_COMMENT_KEY \in ExtraKeys(t)
      /\ Has(SpanAttributes(TheSpan(t)), FEEDBACK_COMMENT_KEY,
             PyStr("looks good"))

(***************************************************************************)
(* C8: for a live span with a valid span context, the string               *)
(* get_traceparent returns, extracted through the same propagator (as      *)
(* raw_annotate_span attaches it), gives a parent context with the span's  *)
(* trace id; for a span whose context makes the propagator inject nothing  *)
(* it returns the empty string; and get_traceparent changes no state.      *)
(***************************************************************************)
ValidContext(sc) == sc.trace_id # ZeroTraceId /\ sc.span_id # ZeroSpanId

C8_RoundTripState ==
    /\ \A t \in Threads :
         (th[t].op = "get_traceparent" /\ th[t].outcome = "returned") =>
           LET sc == (IF th[t].span.cls = "Span"
                      THEN th[t].span ELSE th[t].span.span).sc
               restored ==
                   Extract(TRACEPARENT_NAME :> th[t].result, EmptyContext)
           IN  /\ ValidContext(sc) =>
                     /\ restored.has_span
                     /\ restored.sc.trace_id = sc.trace_id
               /\ sc = INVALID_SPAN_CONTEXT => th[t].result = <<>>
    /\ \A t \in Threads :
         (IsCall(t) /\ Emitted(t) /\ Len(th[t].traceparent) = 55) =>
             /\ TheSpan(t).parent.has_span
             /\ TheSpan(t).parent.sc.trace_id \in
                    { s.sc.trace_id : s \in { SpanA, SpanB } }
             /\ th[t].traceparent =
                    <<"0", "0", "-">> \o TheSpan(t).parent.sc.trace_id
                      \o SubSeq(th[t].traceparent, 36, 55)

C8_Pure ==
    \A t \in Threads :
      (th[t].pc = "idle" /\ th'[t].op = "get_traceparent") =>
          /\ UNCHANGED <<env, loaded, RANDOMIZE, ncalls>>
          /\ \A u \in Threads \ {t} : th'[u] = th[u]
          /\ th'[t].out = <<>>
          /\ th'[t].attempts = 0
          /\ th'[t].ctx = EmptyContext

C8_TraceparentRoundTrip == []C8_RoundTripState /\ [][C8_Pure]_vars

C8_Witness ==
    \E t \in Threads :
      /\ th[t].op = "get_traceparent"
      /\ th[t].outcome = "returned"
      /\ th[t].span = Wrapper(SpanB)
      /\ Len(th[t].result) = 55
      /\ Extract(TRACEPARENT_NAME :> th[t].result, EmptyContext).sc.trace_id
             = TraceIdB

(***************************************************************************)
(* C9: the flag is decided once, at load: disabled exactly when            *)
(* LOGFIRE_RANDOMIZE, lower-cased, is "0", "false" or "no", enabled        *)
(* otherwise (unset included); it never changes afterwards, whatever       *)
(* happens to the environment, and every call decorates or not by it.      *)
(***************************************************************************)
DisabledBy(e) ==
    /\ e.set
    /\ \/ Lower(e.val) = <<"0">>
       \/ Lower(e.val) = <<"f", "a", "l", "s", "e">>
       \/ Lower(e.val) = <<"n", "o">>

C9_DecidedAtLoad == (~loaded /\ loaded') => (RANDOMIZE' <=> ~DisabledBy(env))

C9_NeverChanges == loaded => (loaded' /\ RANDOMIZE' = RANDOMIZE)

C9_CallsFollowFlag ==
    \A t \in Threads :
      (IsCall(t) /\ Emitted(t)) =>
        LET a == SpanAttributes(TheSpan(t))
        IN  IF RANDOMIZE
            THEN /\ (DecorativeKeys \ { EASTER_EGG_KEY }) \subseteq DOMAIN a
                 /\ a["x-random-uuid"] \in DrawnValues("x-random-uuid")
            ELSE \A k \in DOMAIN a \cap DecorativeKeys : k \in CallerKeys(t)

C9_FlagFixedAtLoad ==
    /\ [][C9_DecidedAtLoad]_vars
    /\ [][C9_NeverChanges]_vars
    /\ []C9_CallsFollowFlag

C9_Witness ==
    \E t \in Threads :
      /\ th[t].op = "record_feedback"
      /\ th[t].late
      /\ Emitted(t)
      /\ DisabledBy(env)
      /\ RANDOMIZE
      /\ "x-random-uuid" \in DOMAIN SpanAttributes(TheSpan(t))

(***************************************************************************)
(* C10: in a span emitted by record_feedback with randomization enabled,   *)
(* x-random-easter-egg is present only if the generation that produced    *)
(* the emitted x-random-uuid, x-random-power and x-random-seed also        *)
(* produced the easter egg (one generation per call).                      *)
(***************************************************************************)
C10_SingleGeneration ==
    \A t \in Threads :
      (th[t].op = "record_feedback" /\ Emitted(t) /\ RANDOMIZE
         /\ EASTER_EGG_KEY \notin CallerKeys(t)) =>
        LET a == SpanAttributes(TheSpan(t))
        IN  /\ a["x-random-uuid"] = th[t].rnd68["x-random-uuid"]
            /\ a["x-random-power"] = th[t].rnd68["x-random-power"]
            /\ a["x-random-seed"] = th[t].rnd68["x-random-seed"]
            /\ EASTER_EGG_KEY \in DOMAIN a =>
                   EASTER_EGG_KEY \in DOMAIN th[t].rnd68

====
